---------------------------- MODULE Spec2Model ----------------------------
(***************************************************************************)
(* A model of g2g (src/g2g.go): a Graphite publisher.  One goroutine, the  *)
(* event loop, owns the registry (vars), the connection and the publish    *)
(* timer; Register and Shutdown talk to it over unbuffered channels.       *)
(*                                                                         *)
(* Granularity: the loop is cut at every point where another goroutine or  *)
(* the network can be observed: the select, the statement after a receive, *)
(* each postOne of a pass, the end of a pass, Close, the acknowledgment.   *)
(* Time is a discrete clock that the environment advances.                 *)
(***************************************************************************)
EXTENDS Integers, Sequences, FiniteSets, TLC

\* ------------------------------------------------------------- bounds
MaxTime == 4        \* the clock stops here
MaxInterval == 2    \* NewGraphite's interval is drawn from 1..MaxInterval

\* ------------------------------------------------------------- inputs
Names == {"cpu", "load"}
Values == {"7", "0.5"}
Callers == {"r1"}
Intervals == 1..MaxInterval

TimestampDigits == 10   \* time.Now().Unix() printed with %d

None == <<>>            \* no message / no namedVar
Unset == "unset"       \* in latest: no registration of the name processed yet
Nil == 0                \* the nil net.Conn; a live one is an index of sockets

VARIABLES
  \* the Graphite struct
  interval,       \* g.interval
  lastPublish,    \* g.lastPublish
  connection,     \* g.connection: Nil or an index into sockets
  vars,           \* g.vars: a function from the registered names to values
  registrations,  \* g.registrations: per caller, the namedVar it is blocked sending
  shutdown,       \* g.shutdown and q: the Shutdown caller's position
  \* the goroutines
  ctor,           \* NewGraphite: "init", "ok" (handle returned), "failed" (error returned)
  loopPc,         \* the loop goroutine's position
  nv,             \* the namedVar the select received
  timerAt,        \* when this iteration's time.After channel becomes ready
  remaining,      \* postAll: registry entries the range has not yet visited
  \* the environment
  now,            \* the clock
  sockets,        \* every socket dialled so far: "open", "broken" (peer gone), "closed"
  \* history
  latest,         \* per name, the value of the last registration the loop processed
  passes,         \* publish passes started
  writes,         \* connection.Write calls made since the last pass completed
  dials,          \* net.Dial calls made
  passSnapshot,   \* the registry's names when the pass in flight started
  sent,           \* the postOne calls of the pass in flight, in order
  lostBetween,    \* the peer dropped the connection after a pass, outside any pass
  lastDone,       \* when the last pass completed (or NewGraphite ran)
  overwrote,      \* the loop has replaced a registered name's value by another value
  late,           \* per caller: its pending Register was called after the loop had exited
  inFlight        \* per caller: its pending Register was called while a pass was in flight

gvars == <<interval, lastPublish, connection, vars, registrations, shutdown>>
pvars == <<ctor, loopPc, nv, timerAt, remaining>>
evars == <<now, sockets>>
hvars == <<latest, passes, writes, dials, passSnapshot, sent, lostBetween, lastDone,
           overwrote, late, inFlight>>
allvars == <<gvars, pvars, evars, hvars>>

\* ------------------------------------------------------------ helpers
\* A registry whose first registration of a name wins (a faulty MapSet).
MapSetKeepFirst(m, k, v) ==
  [x \in (DOMAIN m) \cup {k} |-> IF x \in DOMAIN m THEN m[x] ELSE v]

\* A registry that holds the latest registration only (a faulty MapSet).
MapSetSingle(m, k, v) == [x \in {k} |-> v]

\* g.vars[name] = v on a map
MapSet(m, k, v) == [x \in (DOMAIN m) \cup {k} |-> IF x = k THEN v ELSE m[x]]

EmptyMap == [x \in {} |-> None]

\* len([]byte(fmt.Sprintf("%s %s %d\n", name, value, unix)))
LineLen(name, value) == Len(name) + 1 + Len(value) + 1 + TimestampDigits + 1

\* A delay measured from lastPublish without the interval (a faulty
\* nextPublishDelay).
nextPublishDelayNoInterval(lp, iv, t) == lp - t

\* A delay of one interval from the moment it is computed, whatever lastPublish
\* is (a faulty nextPublishDelay).
nextPublishDelayFromNow(lp, iv, t) == iv

\* nextPublishDelay: lastPublish.Add(interval).Sub(time.Now())
nextPublishDelay(lp, iv, t) == (lp + iv) - t

\* reconnect: net.Dial (dialOk: it returned no error), and on success
\* g.connection = conn
reconnect(conn, socks, dialOk) ==
  IF dialOk
  THEN [connection |-> Len(socks) + 1, sockets |-> Append(socks, "open"), err |-> FALSE]
  ELSE [connection |-> conn, sockets |-> socks, err |-> TRUE]

\* What net.Dial may return: TRUE is a connection, FALSE an error.
DialReturns == BOOLEAN

\* What SetWriteDeadline may return: TRUE is a nil error.
DeadlineReturns == BOOLEAN

\* What Write may return on a socket in state st for a line of len bytes:
\* <<n, err>>.  A socket whose peer is gone, or that is closed, only fails.
WriteReturns(st, len) ==
  IF st = "open"
  THEN {<<len, FALSE>>, <<len - 1, FALSE>>, <<0, TRUE>>}
  ELSE {<<0, TRUE>>}

\* A result that trusts a nil error whatever the byte count (a faulty
\* writeResult).
writeResultNoShort(n, err, len) == IF err THEN "write_err" ELSE "ok"

\* The error postOne returns after Write returned <<n, err>> for len bytes.
writeResult(n, err, len) ==
  IF err THEN "write_err"
  ELSE IF n # len THEN "short_write"
  ELSE "ok"

\* A send that dials a second time when the first dial failed (a faulty
\* postOne).
postOneRedial(conn, socks, name, value, dialOk, dl, wr) ==
  LET first == IF conn = Nil THEN reconnect(conn, socks, dialOk)
               ELSE [connection |-> conn, sockets |-> socks, err |-> FALSE]
      rc == IF first.err THEN reconnect(conn, socks, TRUE) ELSE first
      dialed == IF conn = Nil THEN (IF first.err THEN 2 ELSE 1) ELSE 0
      len == LineLen(name, value)
  IN  IF ~dl
      THEN [connection |-> rc.connection, sockets |-> rc.sockets, dialed |-> dialed,
            wrote |-> 0, n |-> 0, len |-> len, err |-> TRUE, result |-> "deadline_err"]
      ELSE [connection |-> rc.connection, sockets |-> rc.sockets, dialed |-> dialed,
            wrote |-> 1, n |-> wr[1], len |-> len, err |-> wr[2],
            result |-> writeResult(wr[1], wr[2], len)]

\* A send that discards the connection when the deadline or the write failed
\* (a faulty postOne).
postOneDropOnError(conn, socks, name, value, dialOk, dl, wr) ==
  LET rc == IF conn = Nil THEN reconnect(conn, socks, dialOk)
            ELSE [connection |-> conn, sockets |-> socks, err |-> FALSE]
      dialed == IF conn = Nil THEN 1 ELSE 0
      len == LineLen(name, value)
      res == writeResult(wr[1], wr[2], len)
  IN  IF rc.err
      THEN [connection |-> rc.connection, sockets |-> rc.sockets, dialed |-> dialed,
            wrote |-> 0, n |-> 0, len |-> len, err |-> TRUE, result |-> "dial_err"]
      ELSE IF ~dl
      THEN [connection |-> Nil, sockets |-> rc.sockets, dialed |-> dialed,
            wrote |-> 0, n |-> 0, len |-> len, err |-> TRUE, result |-> "deadline_err"]
      ELSE [connection |-> IF res = "ok" THEN rc.connection ELSE Nil,
            sockets |-> rc.sockets, dialed |-> dialed,
            wrote |-> 1, n |-> wr[1], len |-> len, err |-> wr[2], result |-> res]

\* A send that dials whether or not a connection is present, and drops the
\* reference to the one it had (a faulty postOne).
postOneAlwaysDial(conn, socks, name, value, dialOk, dl, wr) ==
  LET rc == reconnect(conn, socks, dialOk)
      len == LineLen(name, value)
  IN  IF rc.err
      THEN [connection |-> rc.connection, sockets |-> rc.sockets, dialed |-> 1,
            wrote |-> 0, n |-> 0, len |-> len, err |-> TRUE, result |-> "dial_err"]
      ELSE IF ~dl
      THEN [connection |-> rc.connection, sockets |-> rc.sockets, dialed |-> 1,
            wrote |-> 0, n |-> 0, len |-> len, err |-> TRUE, result |-> "deadline_err"]
      ELSE [connection |-> rc.connection, sockets |-> rc.sockets, dialed |-> 1,
            wrote |-> 1, n |-> wr[1], len |-> len, err |-> wr[2],
            result |-> writeResult(wr[1], wr[2], len)]

\* postOne(name, value) from connection conn, with the environment's answers:
\* dialOk (Dial), dl (SetWriteDeadline), wr (Write), each used when it is called.
postOne(conn, socks, name, value, dialOk, dl, wr) ==
  LET rc == IF conn = Nil THEN reconnect(conn, socks, dialOk)
            ELSE [connection |-> conn, sockets |-> socks, err |-> FALSE]
      dialed == IF conn = Nil THEN 1 ELSE 0
      len == LineLen(name, value)
  IN  IF rc.err
      THEN [connection |-> rc.connection, sockets |-> rc.sockets, dialed |-> dialed,
            wrote |-> 0, n |-> 0, len |-> len, err |-> TRUE, result |-> "dial_err"]
      ELSE IF ~dl
      THEN [connection |-> rc.connection, sockets |-> rc.sockets, dialed |-> dialed,
            wrote |-> 0, n |-> 0, len |-> len, err |-> TRUE, result |-> "deadline_err"]
      ELSE [connection |-> rc.connection, sockets |-> rc.sockets, dialed |-> dialed,
            wrote |-> 1, n |-> wr[1], len |-> len, err |-> wr[2],
            result |-> writeResult(wr[1], wr[2], len)]

\* A range that stops at the first failed postOne (a faulty postAllRest).
postAllRestAbort(rem, name, res) == IF res = "ok" THEN rem \ {name} ELSE {}

\* postAll's range: the entries still to visit after name's postOne returned res.
postAllRest(rem, name, res) == rem \ {name}

\* ---------------------------------------------------------------- Init
Init ==
  /\ interval \in Intervals
  /\ lastPublish = 0
  /\ connection = Nil
  /\ vars = EmptyMap
  /\ registrations = [c \in Callers |-> None]
  /\ shutdown = "idle"
  /\ ctor = "init"
  /\ loopPc = "not_started"
  /\ nv = None
  /\ timerAt = 0
  /\ remaining = {}
  /\ now = 0
  /\ sockets = <<>>
  /\ latest = [n \in Names |-> Unset]
  /\ passes = 0
  /\ writes = 0
  /\ dials = 0
  /\ passSnapshot = {}
  /\ sent = <<>>
  /\ lostBetween = FALSE
  /\ lastDone = 0
  /\ overwrote = FALSE
  /\ late = [c \in Callers |-> FALSE]
  /\ inFlight = [c \in Callers |-> FALSE]

\* --------------------------------------------------------- constructor
\* A constructor that drops reconnect's error (a faulty NewGraphite).
NewGraphiteUnchecked(dialOk) ==
  /\ ctor = "init"
  /\ LET rc == reconnect(Nil, sockets, dialOk)
     IN  /\ dials' = dials + 1
         /\ lastPublish' = now
         /\ lastDone' = now
         /\ vars' = EmptyMap
         /\ connection' = rc.connection
         /\ sockets' = rc.sockets
         /\ ctor' = "ok"
         /\ loopPc' = "top"
  /\ UNCHANGED <<interval, registrations, shutdown, nv, timerAt, remaining,
                 now, latest, passes, writes, passSnapshot, sent, lostBetween,
                 overwrote, late, inFlight>>

\* NewGraphite: the struct, one reconnect, and go g.loop() only on success.
NewGraphite(dialOk) ==
  /\ ctor = "init"
  /\ LET rc == reconnect(Nil, sockets, dialOk)
     IN  /\ dials' = dials + 1
         /\ lastPublish' = now
         /\ lastDone' = now
         /\ vars' = EmptyMap
         /\ connection' = rc.connection
         /\ sockets' = rc.sockets
         /\ ctor' = IF rc.err THEN "failed" ELSE "ok"
         /\ loopPc' = IF rc.err THEN "not_started" ELSE "top"
  /\ UNCHANGED <<interval, registrations, shutdown, nv, timerAt, remaining,
                 now, latest, passes, writes, passSnapshot, sent, lostBetween,
                 overwrote, late, inFlight>>

\* ------------------------------------------------------------- callers
\* Register, up to its channel send: the caller blocks on g.registrations.
Register(c, name, v) ==
  /\ ctor = "ok"
  /\ registrations[c] = None
  /\ registrations' = [registrations EXCEPT ![c] = <<name, v>>]
  /\ late' = [late EXCEPT ![c] = (loopPc = "exited")]
  /\ inFlight' = [inFlight EXCEPT ![c] = (loopPc = "pass")]
  /\ UNCHANGED <<interval, lastPublish, connection, vars, shutdown, pvars, evars,
                 latest, passes, writes, dials, passSnapshot, sent, lostBetween,
                 lastDone, overwrote>>

\* Shutdown, up to g.shutdown <- q: the caller blocks on g.shutdown.
Shutdown ==
  /\ ctor = "ok"
  /\ shutdown = "idle"
  /\ shutdown' = "sending"
  /\ UNCHANGED <<interval, lastPublish, connection, vars, registrations, pvars, evars, hvars>>

\* ---------------------------------------------------------------- loop
\* The top of the for: the select's cases are evaluated, time.After is armed.
loopTop ==
  /\ loopPc = "top"
  /\ timerAt' = now + nextPublishDelay(lastPublish, interval, now)
  /\ loopPc' = "select"
  /\ UNCHANGED <<gvars, ctor, nv, remaining, evars, hvars>>

\* A receive that is also taken in the middle of a pass (a faulty
\* loopRecvRegistration).
loopRecvRegistrationEarly(c) ==
  /\ loopPc \in {"select", "pass"}
  /\ registrations[c] # None
  /\ nv' = registrations[c]
  /\ registrations' = [registrations EXCEPT ![c] = None]
  /\ inFlight' = [inFlight EXCEPT ![c] = FALSE]
  /\ loopPc' = "apply"
  /\ UNCHANGED <<interval, lastPublish, connection, vars, shutdown, ctor, timerAt,
                 remaining, evars, latest, passes, writes, dials, passSnapshot, sent,
                 lostBetween, lastDone, overwrote, late>>

\* case nv := <-g.registrations: the rendezvous; the sender's Register returns.
loopRecvRegistration(c) ==
  /\ loopPc = "select"
  /\ registrations[c] # None
  /\ nv' = registrations[c]
  /\ registrations' = [registrations EXCEPT ![c] = None]
  /\ inFlight' = [inFlight EXCEPT ![c] = FALSE]
  /\ loopPc' = "apply"
  /\ UNCHANGED <<interval, lastPublish, connection, vars, shutdown, ctor, timerAt,
                 remaining, evars, latest, passes, writes, dials, passSnapshot, sent,
                 lostBetween, lastDone, overwrote, late>>

\* A registration branch that also writes the new metric at once (a faulty
\* loopApply).
loopApplyAndPost ==
  /\ loopPc = "apply"
  /\ vars' = MapSet(vars, nv[1], nv[2])
  /\ latest' = [latest EXCEPT ![nv[1]] = nv[2]]
  /\ overwrote' = (overwrote \/ (latest[nv[1]] # Unset /\ latest[nv[1]] # nv[2]))
  /\ writes' = writes + 1
  /\ nv' = None
  /\ loopPc' = "top"
  /\ UNCHANGED <<interval, lastPublish, connection, registrations, shutdown, ctor,
                 timerAt, remaining, evars, passes, dials, passSnapshot, sent,
                 lostBetween, lastDone, late, inFlight>>

\* g.vars[nv.name] = nv.v
loopApply ==
  /\ loopPc = "apply"
  /\ vars' = MapSet(vars, nv[1], nv[2])
  /\ latest' = [latest EXCEPT ![nv[1]] = nv[2]]
  /\ overwrote' = (overwrote \/ (latest[nv[1]] # Unset /\ latest[nv[1]] # nv[2]))
  /\ nv' = None
  /\ loopPc' = "top"
  /\ UNCHANGED <<interval, lastPublish, connection, registrations, shutdown, ctor,
                 timerAt, remaining, evars, passes, writes, dials, passSnapshot, sent,
                 lostBetween, lastDone, late, inFlight>>

\* case <-time.After(...): the timer's channel is ready; postAll begins its range.
loopTimer ==
  /\ loopPc = "select"
  /\ now >= timerAt
  /\ loopPc' = "pass"
  /\ remaining' = DOMAIN vars
  /\ passes' = passes + 1
  /\ passSnapshot' = DOMAIN vars
  /\ sent' = <<>>
  /\ UNCHANGED <<gvars, ctor, nv, timerAt, evars, latest, writes, dials,
                 lostBetween, lastDone, overwrote, late, inFlight>>

\* One iteration of postAll's range: postOne(name, v.String()), the error logged.
postAllOne(name, dialOk, dl, wr) ==
  /\ loopPc = "pass"
  /\ name \in remaining
  /\ LET r == postOne(connection, sockets, name, vars[name], dialOk, dl, wr)
     IN  /\ connection' = r.connection
         /\ sockets' = r.sockets
         /\ dials' = dials + r.dialed
         /\ writes' = writes + r.wrote
         /\ sent' = Append(sent, [name |-> name, value |-> vars[name],
                                  dialed |-> r.dialed, wrote |-> r.wrote,
                                  n |-> r.n, len |-> r.len, err |-> r.err,
                                  result |-> r.result])
         /\ remaining' = postAllRest(remaining, name, r.result)
  /\ UNCHANGED <<interval, lastPublish, vars, registrations, shutdown, ctor, loopPc,
                 nv, timerAt, now, latest, passes, passSnapshot, lostBetween, lastDone,
                 overwrote, late, inFlight>>

\* The environment's answers to one postOne.
postAllStep ==
  \E name \in remaining, dialOk \in DialReturns, dl \in DeadlineReturns :
    \E wr \in WriteReturns(IF connection = Nil THEN "open" ELSE sockets[connection],
                           LineLen(name, vars[name])) :
      postAllOne(name, dialOk, dl, wr)

\* A pass that moves lastPublish only when every send succeeded (a faulty
\* postAllDone).
postAllDoneOnSuccess ==
  /\ loopPc = "pass"
  /\ remaining = {}
  /\ lastPublish' = IF \A i \in DOMAIN sent : sent[i].result = "ok"
                    THEN now ELSE lastPublish
  /\ lastDone' = now
  /\ loopPc' = "top"
  /\ passSnapshot' = {}
  /\ sent' = <<>>
  /\ writes' = 0
  /\ UNCHANGED <<interval, connection, vars, registrations, shutdown, ctor, nv,
                 timerAt, remaining, evars, latest, passes, dials, lostBetween,
                 overwrote, late, inFlight>>

\* A pass that closes its connection when the range is over, leaving the next
\* pass to dial (a faulty postAllDone).
postAllDoneDisconnect ==
  /\ loopPc = "pass"
  /\ remaining = {}
  /\ lastPublish' = now
  /\ lastDone' = now
  /\ loopPc' = "top"
  /\ passSnapshot' = {}
  /\ sent' = <<>>
  /\ writes' = 0
  /\ sockets' = [sockets EXCEPT ![connection] = "closed"]
  /\ connection' = Nil
  /\ UNCHANGED <<interval, vars, registrations, shutdown, ctor, nv,
                 timerAt, remaining, now, latest, passes, dials, lostBetween,
                 overwrote, late, inFlight>>

\* The range is over: g.lastPublish = time.Now()
postAllDone ==
  /\ loopPc = "pass"
  /\ remaining = {}
  /\ lastPublish' = now
  /\ lastDone' = now
  /\ loopPc' = "top"
  /\ passSnapshot' = {}
  /\ sent' = <<>>
  /\ writes' = 0
  /\ UNCHANGED <<interval, connection, vars, registrations, shutdown, ctor, nv,
                 timerAt, remaining, evars, latest, passes, dials, lostBetween,
                 overwrote, late, inFlight>>

\* A shutdown request that is also received in the middle of a pass (a
\* faulty loopRecvShutdown).
loopRecvShutdownEarly ==
  /\ loopPc \in {"select", "pass"}
  /\ shutdown = "sending"
  /\ shutdown' = "waiting"
  /\ loopPc' = "closing"
  /\ UNCHANGED <<interval, lastPublish, connection, vars, registrations, ctor, nv,
                 timerAt, remaining, evars, hvars>>

\* case q := <-g.shutdown: the rendezvous; the caller goes on to <-q.
loopRecvShutdown ==
  /\ loopPc = "select"
  /\ shutdown = "sending"
  /\ shutdown' = "waiting"
  /\ loopPc' = "closing"
  /\ UNCHANGED <<interval, lastPublish, connection, vars, registrations, ctor, nv,
                 timerAt, remaining, evars, hvars>>

\* A shutdown branch that acknowledges without closing (a faulty loopClose).
loopCloseSkipped ==
  /\ loopPc = "closing"
  /\ loopPc' = "ack"
  /\ UNCHANGED <<gvars, ctor, nv, timerAt, remaining, evars, hvars>>

\* g.connection.Close(); g.connection = nil.  Close on a nil interface panics.
loopClose ==
  /\ loopPc = "closing"
  /\ IF connection = Nil
     THEN /\ loopPc' = "panicked"
          /\ UNCHANGED <<connection, sockets>>
     ELSE /\ sockets' = [sockets EXCEPT ![connection] = "closed"]
          /\ connection' = Nil
          /\ loopPc' = "ack"
  /\ UNCHANGED <<interval, lastPublish, vars, registrations, shutdown, ctor, nv,
                 timerAt, remaining, now, hvars>>

\* An acknowledgment after which the for loop goes on (a faulty loopAck: the
\* return is missing).
loopAckNoReturn ==
  /\ loopPc = "ack"
  /\ shutdown = "waiting"
  /\ shutdown' = "returned"
  /\ loopPc' = "top"
  /\ UNCHANGED <<interval, lastPublish, connection, vars, registrations, ctor, nv,
                 timerAt, remaining, evars, hvars>>

\* q <- true; return: the rendezvous with Shutdown's <-q, which then returns.
loopAck ==
  /\ loopPc = "ack"
  /\ shutdown = "waiting"
  /\ shutdown' = "returned"
  /\ loopPc' = "exited"
  /\ UNCHANGED <<interval, lastPublish, connection, vars, registrations, ctor, nv,
                 timerAt, remaining, evars, hvars>>

\* --------------------------------------------------------- environment
Tick ==
  /\ now < MaxTime
  /\ now' = now + 1
  /\ UNCHANGED <<gvars, pvars, sockets, hvars>>

\* The peer drops an established connection.
ConnectionDrop ==
  /\ connection # Nil
  /\ sockets[connection] = "open"
  /\ sockets' = [sockets EXCEPT ![connection] = "broken"]
  /\ lostBetween' = (passes >= 1 /\ loopPc # "pass")
  /\ UNCHANGED <<gvars, pvars, now, latest, passes, writes, dials, passSnapshot,
                 sent, lastDone, overwrote, late, inFlight>>

Next ==
  \/ \E dialOk \in DialReturns : NewGraphite(dialOk)
  \/ \E c \in Callers, name \in Names, v \in Values : Register(c, name, v)
  \/ Shutdown
  \/ loopTop
  \/ \E c \in Callers : loopRecvRegistration(c)
  \/ loopApply
  \/ loopTimer
  \/ postAllStep
  \/ postAllDone
  \/ loopRecvShutdown
  \/ loopClose
  \/ loopAck
  \/ Tick
  \/ ConnectionDrop

Spec == Init /\ [][Next]_allvars

\* The steps the loop goroutine takes on its own: at most one is enabled.
loopSequential ==
  loopTop \/ loopApply \/ postAllStep \/ postAllDone \/ loopClose \/ loopAck

\* The scheduling the Go runtime gives the loop goroutine:
\*  - a runnable goroutine runs, and every network call returns: the
\*    sequential steps of the loop are weakly fair;
\*  - a select with several ready cases picks one uniformly at random, so a
\*    case that is ready again and again is taken: the timer and the shutdown
\*    case are strongly fair;
\*  - the clock advances (up to the bound of the model).
\* Register and Shutdown calls are the callers' choice: no fairness.
Fairness ==
  /\ WF_allvars(loopSequential)
  /\ SF_allvars(loopTimer)
  /\ SF_allvars(loopRecvShutdown)
  /\ WF_allvars(Tick)

\* The program with callers that register one metric only: the names and
\* values registered have no part in what the fair scheduling decides.
FairNames == {"cpu"}
FairValues == {"7"}

FairNext ==
  \/ \E dialOk \in DialReturns : NewGraphite(dialOk)
  \/ \E c \in Callers, name \in FairNames, v \in FairValues : Register(c, name, v)
  \/ Shutdown
  \/ loopTop
  \/ \E c \in Callers : loopRecvRegistration(c)
  \/ loopApply
  \/ loopTimer
  \/ postAllStep
  \/ postAllDone
  \/ loopRecvShutdown
  \/ loopClose
  \/ loopAck
  \/ Tick
  \/ ConnectionDrop

FairSpec == Init /\ [][FairNext]_allvars /\ Fairness

\* ------------------------------------------------------ type invariant
\* ------------------------------------------------- postOne on its inputs
\* postOne as a function of the coordinator it is called on: the connection
\* field absent or present (open, or dropped by the peer), the registry any map
\* over Names, the range of postAll about to begin.
SendRegistries ==
  UNION {[D -> Values] : D \in SUBSET Names}

SendConnections ==
  {<<Nil, <<>>>>, <<Nil, <<"closed">>>>, <<1, <<"open">>>>, <<1, <<"broken">>>>}

SendInit ==
  /\ interval \in Intervals
  /\ lastPublish = 0
  /\ \E cs \in SendConnections : connection = cs[1] /\ sockets = cs[2]
  /\ vars \in SendRegistries
  /\ registrations = [c \in Callers |-> None]
  /\ shutdown = "idle"
  /\ ctor = "ok"
  /\ loopPc = "pass"
  /\ nv = None
  /\ timerAt = interval
  /\ remaining = DOMAIN vars
  /\ now \in interval..MaxTime
  /\ latest = [n \in Names |-> IF n \in DOMAIN vars THEN vars[n] ELSE Unset]
  /\ passes = 1
  /\ writes = 0
  /\ dials = 0
  /\ passSnapshot = DOMAIN vars
  /\ sent = <<>>
  /\ lostBetween = FALSE
  /\ lastDone = 0
  /\ overwrote = FALSE
  /\ late = [c \in Callers |-> FALSE]
  /\ inFlight = [c \in Callers |-> FALSE]

SendNext == postAllStep

SendSpec == SendInit /\ [][SendNext]_allvars

TypeOK ==
  /\ interval \in Intervals
  /\ lastPublish \in 0..MaxTime
  /\ connection \in 0..Len(sockets)
  /\ DOMAIN vars \subseteq Names
  /\ \A n \in DOMAIN vars : vars[n] \in Values
  /\ shutdown \in {"idle", "sending", "waiting", "returned"}
  /\ ctor \in {"init", "ok", "failed"}
  /\ loopPc \in {"not_started", "top", "select", "apply", "pass", "closing", "ack",
                 "exited", "panicked"}
  /\ now \in 0..MaxTime
  /\ latest \in [Names -> Values \cup {Unset}]

\* ------------------------------------------------------------ helpers
AllClosed == \A i \in DOMAIN sockets : sockets[i] = "closed"

\* How many postOne calls of the pass in flight were for name n.
Attempts(n) == Cardinality({i \in DOMAIN sent : sent[i].name = n})

\* ------------------------------------------------------------------ C1
\* C1: once Shutdown() has returned, the connection is nil and every socket
\* is closed, the loop has exited, and no later step starts a pass, writes or
\* dials; the acknowledgment itself is given with the connection already
\* closed.
ShutdownIsFinal ==
  [][ /\ (shutdown' = "returned") =>
           (connection' = Nil /\ AllClosed' /\ loopPc' = "exited")
      /\ (shutdown = "returned") =>
           (passes' = passes /\ writes' = writes /\ dials' = dials
            /\ sent' = sent /\ sockets' = sockets /\ loopPc' = loopPc)
      /\ (shutdown # "returned" /\ shutdown' = "returned") =>
           (connection = Nil /\ AllClosed)
    ]_allvars

\* Shutdown has returned, after an earlier pass, with the timer of a further
\* pass expired.
ShutdownWhilePassDue ==
  /\ shutdown = "returned"
  /\ passes >= 1
  /\ DOMAIN vars # {}
  /\ now >= timerAt

\* ------------------------------------------------------------------ C2
\* C2 as stated: while the coordinator waits in its select, is in the middle
\* of a pass or is handling another message, a Register call in progress can
\* return at once.
RegisterNeverWaits ==
  \A c \in Callers :
    (registrations[c] # None
     /\ loopPc \in {"select", "pass", "apply", "closing", "ack"})
      => ENABLED loopRecvRegistration(c)

\* C2 as amended: a Register call returns only in the step in which the
\* coordinator, waiting in its select, receives the call's message (until then
\* the caller is blocked); at that step the registry is still unchanged.
RegisterReturnsAtReceive ==
  [][ \A c \in Callers :
        (registrations[c] # None /\ registrations'[c] = None) =>
          (loopPc = "select" /\ loopPc' = "apply"
           /\ nv' = registrations[c] /\ vars' = vars)
    ]_allvars

\* A Register call has returned, in an execution with a pass, and its
\* registration is not yet in the registry.
RegisterReturnedUnapplied ==
  /\ loopPc = "apply"
  /\ passes >= 1
  /\ \A c \in Callers : registrations[c] = None
  /\ nv[1] \notin DOMAIN vars

\* ------------------------------------------------------------------ C3
\* C3: the registry holds exactly the names of the processed registrations,
\* each with the value of the last one processed for it; every send of a pass
\* carries that value; and no step removes a name.
RegistryLastWriteWins ==
  [][ /\ DOMAIN vars' = {n \in Names : latest'[n] # Unset}
      /\ \A n \in DOMAIN vars' : vars'[n] = latest'[n]
      /\ \A i \in DOMAIN sent' : sent'[i].value = latest'[sent'[i].name]
      /\ DOMAIN vars \subseteq DOMAIN vars'
    ]_allvars

\* The only registered name, registered twice with different values, is
\* being published.
OverwrittenPublished ==
  /\ overwrote
  /\ loopPc = "pass"
  /\ \E i \in DOMAIN sent : \E n \in Names \ {sent[i].name} : latest[n] = Unset

\* ------------------------------------------------------------------ C4
\* C4: in a pass no name is sent twice and only names of the registry at pass
\* start are sent; when the range is over every such name has been sent
\* exactly once, whichever earlier sends failed.
PassCompleteness ==
  loopPc = "pass" =>
    /\ \A i \in DOMAIN sent : sent[i].name \in passSnapshot
    /\ \A n \in passSnapshot : Attempts(n) <= 1
    /\ remaining = {} => \A n \in passSnapshot : Attempts(n) = 1

\* A pass has attempted both names although the first send failed.
PassFinishedAfterFailure ==
  /\ loopPc = "pass"
  /\ remaining = {}
  /\ Len(sent) = 2
  /\ sent[1].result # "ok"

\* ------------------------------------------------------------------ C5
\* How many postOne calls of the pass in flight dialled.
DialsInPass == Cardinality({i \in DOMAIN sent : sent[i].dialed = 1})

\* C5 as stated: a pass over a non-empty registry that follows the loss of
\* the connection between two passes has attempted a reconnect by its end.
ReconnectAfterDrop ==
  (loopPc = "pass" /\ remaining = {} /\ passSnapshot # {} /\ lostBetween)
    => DialsInPass >= 1

\* ------------------------------------------------------------------ C6
\* C6: NewGraphite returns a handle exactly when its dial succeeded; after a
\* failure there is no connection, no loop, no pass and no write, ever; on
\* success the handle has an open connection, an empty registry and a running
\* loop, and the loop runs only for a returned handle.
ConstructionAllOrNothing ==
  [][ /\ (ctor' = "ok") <=> (Len(sockets') >= 1)
      /\ (ctor' = "failed") =>
           (loopPc' = "not_started" /\ connection' = Nil /\ dials' = 1
            /\ passes' = 0 /\ writes' = 0 /\ sent' = <<>>)
      /\ (ctor' = "init") => (loopPc' = "not_started" /\ dials' = 0)
      /\ (ctor = "init" /\ ctor' = "ok") =>
           (connection' # Nil /\ sockets'[connection'] = "open"
            /\ vars' = EmptyMap /\ loopPc' = "top")
    ]_allvars

\* Construction failed, and time went by to the end.
ConstructionFailed == ctor = "failed" /\ now = MaxTime

\* ------------------------------------------------------------------ C7
\* C7 as stated: a Register call made after the loop has handled shutdown can
\* return.
RegisterAfterShutdownReturns ==
  \A c \in Callers :
    (registrations[c] # None /\ late[c] /\ loopPc = "exited")
      => ENABLED loopRecvRegistration(c)

\* ------------------------------------------------------------------ C8
\* C8: a pass starts no earlier than the interval after the completion of
\* the pass before it (after construction, for the first), and a step starts
\* at most one pass.
Cadence ==
  [][ (passes' # passes) =>
        (passes' = passes + 1 /\ now >= lastDone + interval)
    ]_allvars

\* A second pass has started, late, with a name registered.
SecondPassLate ==
  /\ passes = 2
  /\ loopPc = "pass"
  /\ DOMAIN vars # {}
  /\ now > lastDone + interval

\* ------------------------------------------------------------------ C9
\* C9: only a step of a pass writes, and only a step of a pass or the
\* constructor dials: receiving or applying a registration and the steps of
\* shutdown do neither.  Before the first pass nothing has been written, and
\* Shutdown returns with every socket closed.
WritesOnlyInPass ==
  [][ /\ (writes' > writes) => (loopPc = "pass" /\ loopPc' = "pass")
      /\ (dials' # dials) => (ctor = "init" \/ (loopPc = "pass" /\ loopPc' = "pass"))
      /\ (passes' = 0) => (writes' = 0 /\ dials' <= 1)
      /\ (shutdown' = "returned") => AllClosed'
    ]_allvars

\* Two names were registered and Shutdown returned before any pass.
ShutdownBeforeAnyPass ==
  /\ shutdown = "returned"
  /\ passes = 0
  /\ DOMAIN vars = Names

\* ----------------------------------------------------------------- C10
\* Whether the i-th postOne of the pass got a short write: Write returned a
\* nil error and a byte count other than the line's length.
ShortWrite(i) == sent[i].wrote = 1 /\ ~sent[i].err /\ sent[i].n # sent[i].len

\* C10: a postOne whose Write was short returns an error, and the pass makes
\* no other send for that name.
ShortWriteDetected ==
  \A i \in DOMAIN sent :
    ShortWrite(i) => (sent[i].result = "short_write" /\ Attempts(sent[i].name) = 1)

\* A pass is over in which some Write was short.
ShortWriteSeen ==
  /\ loopPc = "pass"
  /\ remaining = {}
  /\ \E i \in DOMAIN sent : ShortWrite(i)

\* ----------------------------------------------------------------- C11
\* C11: a Shutdown() call that has been made eventually returns, whatever
\* registrations and due passes compete with it in the select, and once the
\* loop has exited it stays exited.
ShutdownTerminates ==
  /\ (shutdown = "sending") ~> (shutdown = "returned" /\ loopPc = "exited")
  /\ [][shutdown = "returned" => loopPc' = "exited"]_allvars

\* Shutdown has returned after two passes, leaving unreceived a registration
\* that was waiting in the select with it.
ShutdownReturnedAfterPass ==
  /\ shutdown = "returned"
  /\ passes >= 2
  /\ \E c \in Callers : registrations[c] # None /\ ~late[c]

\* ----------------------------------------------------------------- C12
\* C12: a step taken while a pass is in flight leaves the registry as it is,
\* receives no registration and no shutdown request (either may be issued and
\* then waits), and closes no socket; the step that ends the pass comes when
\* the range is over and sets lastPublish to the current time.
PassIsAtomic ==
  [][ (loopPc = "pass") =>
        /\ vars' = vars
        /\ latest' = latest
        /\ \A c \in Callers :
             registrations[c] # None => registrations'[c] = registrations[c]
        /\ shutdown' # shutdown => (shutdown = "idle" /\ shutdown' = "sending")
        /\ connection # Nil => connection' # Nil
        /\ \A i \in DOMAIN sockets : sockets'[i] = "closed" => sockets[i] = "closed"
        /\ loopPc' # "pass" =>
             (remaining = {} /\ loopPc' = "top" /\ lastPublish' = now)
    ]_allvars

\* In the middle of a pass a registration and a shutdown request are waiting.
RequestsWaitDuringPass ==
  /\ loopPc = "pass"
  /\ sent # <<>>
  /\ remaining # {}
  /\ shutdown = "sending"
  /\ \E c \in Callers : registrations[c] # None

\* ----------------------------------------------------------------- C13
\* C13: a send that starts with the connection absent dials exactly once; when
\* that dial fails the send returns the dial's error without writing and
\* leaves the connection absent; a send that starts with a connection dials
\* nothing.
OneReconnectPerSend ==
  [][ (loopPc = "pass" /\ Len(sent') = Len(sent) + 1) =>
        LET e == sent'[Len(sent')]
        IN  /\ connection = Nil => (dials' = dials + 1 /\ e.dialed = 1)
            /\ (connection = Nil /\ sockets' = sockets) =>
                 /\ e.err /\ e.result = "dial_err"
                 /\ e.wrote = 0 /\ writes' = writes
                 /\ connection' = Nil
            /\ (connection = Nil /\ sockets' # sockets) =>
                 /\ Len(sockets') = Len(sockets) + 1
                 /\ connection' = Len(sockets')
                 /\ e.result # "dial_err"
            /\ connection # Nil =>
                 (dials' = dials /\ e.dialed = 0 /\ Len(sockets') = Len(sockets))
    ]_allvars

\* A send whose dial failed was followed by a send that dialled once more and
\* delivered its line.
DialFailedThenDialled ==
  /\ Len(sent) = 2
  /\ sent[1].result = "dial_err"
  /\ sent[2].dialed = 1
  /\ sent[2].result = "ok"
  /\ dials = 2
  /\ writes = 1

\* ----------------------------------------------------------------- C14
\* C14: a send that fails at SetWriteDeadline, at Write, or by a short write
\* leaves the connection field holding the connection it had, and the socket
\* as it was; the send after a failed one dials nothing.
SendFailures == {"deadline_err", "write_err", "short_write"}

LastPublishOnlyAtPassEnd ==
  [][ (ctor # "init") =>
        /\ lastPublish' >= lastPublish
        /\ lastPublish' # lastPublish =>
             /\ loopPc = "pass" /\ loopPc' = "top"
             /\ remaining = {}
             /\ \A n \in passSnapshot : Attempts(n) = 1
        /\ (loopPc = "pass" /\ loopPc' # "pass") => lastPublish' = now
        /\ (loopPc = "apply" \/ Len(sent') = Len(sent) + 1) =>
             lastPublish' = lastPublish
    ]_allvars

\* The first pass over a non-empty registry has ended, on a connection the
\* peer had dropped by then, and lastPublish is the time of its end, later than
\* the constructor's timer was armed for.
LastPublishMovedOnBrokenConnection ==
  /\ loopPc = "top"
  /\ passes = 1
  /\ DOMAIN vars = Names
  /\ sockets[connection] = "broken"
  /\ ~lostBetween
  /\ lastPublish = now
  /\ lastPublish > timerAt

\* ----------------------------------------------------------------- C16
\* C16 as stated: a registration issued while a pass was in flight has its
\* name in the next pass that starts after that pass completed.
IssuedInFlightInNextPass ==
  [][ (loopPc = "select" /\ loopPc' = "pass") =>
        \A c \in Callers :
          (registrations[c] # None /\ inFlight[c]) =>
            registrations[c][1] \in remaining'
    ]_allvars

\* The names applied to the registry so far.
Applied == {n \in Names : latest[n] # Unset}

\* C16: a registration is applied only when the select receives it, never
\* during a pass; the select may take a due timer first, and the pass that then
\* starts ranges over the applied names only.  A name once applied stays
\* applied, every pass that starts ranges over all applied names, and has
\* attempted each of them once when it ends.
AppliedInEveryLaterPass ==
  [][ /\ \A n \in Applied : latest'[n] # Unset
      /\ (loopPc = "pass") => latest' = latest
      /\ (loopPc = "select" /\ loopPc' = "pass") =>
           (remaining' = Applied /\ passSnapshot' = Applied)
      /\ (loopPc = "pass" /\ loopPc' # "pass") =>
           \A n \in Applied : Attempts(n) = 1
    ]_allvars

\* The second pass has attempted the applied name, and a registration of
\* another name, issued while a pass was in flight, still waits.
SecondPassWithoutWaitingName ==
  /\ passes = 2
  /\ loopPc = "pass"
  /\ remaining = {}
  /\ sent # <<>>
  /\ \E c \in Callers :
       /\ registrations[c] # None
       /\ inFlight[c]
       /\ registrations[c][1] \notin Applied

\* ----------------------------------------------------------------- C17
\* The sockets the coordinator has opened and not closed.
Unclosed(socks) == {i \in DOMAIN socks : socks[i] # "closed"}

\* C17: at most one socket opened by the coordinator is not closed, and it is
\* the one the connection field refers to; a socket is closed only by the
\* shutdown branch, a closed socket is never closed or used again, and no
\* execution closes more than one.
ConnectionLifecycle ==
  [][ /\ Cardinality(Unclosed(sockets')) <= 1
      /\ \A i \in Unclosed(sockets') : connection' = i
      /\ \A i \in DOMAIN sockets :
           /\ sockets[i] = "closed" => sockets'[i] = "closed"
           /\ (sockets[i] # "closed" /\ sockets'[i] = "closed") =>
                (loopPc = "closing" /\ shutdown = "waiting" /\ connection = i)
      /\ Cardinality(DOMAIN sockets' \ Unclosed(sockets')) <= 1
    ]_allvars

\* Shutdown has returned after passes on a connection the peer had dropped:
\* the one socket ever opened is closed.
DroppedSocketClosedAtShutdown ==
  /\ shutdown = "returned"
  /\ passes >= 2
  /\ lostBetween
  /\ sockets = <<"closed">>
  /\ connection = Nil
  /\ dials = 1

\* ----------------------------------------------------------------- C18
\* C18: from the top of the loop (after construction, after a pass, after a
\* registration was applied), while no shutdown has been requested, a pass
\* eventually starts, whatever the sends returned and however many
\* registrations the select receives first.  (The premise keeps the due time
\* lastPublish + interval within the clock of the model.)
PassesRecur ==
  (loopPc = "top" /\ shutdown = "idle" /\ lastPublish + interval <= MaxTime)
    ~> (loopPc = "pass" \/ shutdown # "idle")

\* A third pass has started, later than it was due, on a connection the peer
\* dropped between passes, with a registration waiting in the select.
ThirdPassAfterFailures ==
  /\ passes = 3
  /\ loopPc = "pass"
  /\ sent = <<>>
  /\ shutdown = "idle"
  /\ now > timerAt
  /\ lostBetween
  /\ sockets[connection] = "broken"
  /\ DOMAIN vars # {}
  /\ \E c \in Callers : registrations[c] # None

\* ----------------------------------------------------------------- C19
\* A send of the pass in flight that delivers its line.
DeliveringSend == postAllStep /\ sent'[Len(sent')].result = "ok"

\* C19: after the peer dropped the connection between passes, a later pass can
\* deliver again: with the endpoint reachable (it accepts a dial, and a write
\* on a connection it accepted can succeed) a send of that pass that delivers
\* its line is possible.
DeliveryResumesAfterOutage ==
  (/\ lostBetween
   /\ shutdown = "idle"
   /\ loopPc = "pass"
   /\ remaining # {}) => ENABLED DeliveringSend

=============================================================================
